---- MODULE Spec2Model ----
(***************************************************************************)
(* A model of fedmsg_notify/daemon.py: the FedmsgNotifyService object, its *)
(* settings handler, its message consumer, the icon cache with its         *)
(* asynchronous downloads, the notification list and shutdown.             *)
(*                                                                         *)
(* Everything runs on one reactor loop, so every handler is one atomic     *)
(* action.  Calls into collaborators that can fail (Notification.show,     *)
(* Notification.close, requests.get, downloadPage) take their outcome as   *)
(* an input of the action.                                                 *)
(***************************************************************************)
EXTENDS Integers, Sequences, FiniteSets, TLC

VARIABLES
    settings,           \* the Gio.Settings store: enabled-filters, filter-settings
    enabled,            \* self.enabled
    emit_dbus_signals,  \* self.emit_dbus_signals
    max_notifications,  \* self.max_notifications
    expire,             \* self.expire
    use_server_prefs,   \* self.use_server_prefs
    enabled_filters,    \* self.enabled_filters
    service_filters,    \* self.service_filters: sequence of topic prefixes
    filters,            \* self.filters: sequence of [name, cfg] filter instances
    _preferences,       \* self._preferences: None, [] or [preference]
    notifications,      \* self.notifications: sequence of notification ids
    shown,              \* number of notifications display_notification has shown
    closed,             \* notifications on which close() has succeeded
    timers,             \* pending reactor.callLater(.., note.close) calls
    _icon_cache,        \* self._icon_cache: key -> local file
    files,              \* the files of cache_dir: filename -> content hash
    downloads,          \* downloadPage calls in flight: id -> [icon, stage]
    started,            \* number of downloadPage calls made so far
    pending,            \* DeferredLists not yet fired: sets of download ids
    cached,             \* icon references whose whole content cache_icon has
                        \* registered (observation only)
    running,            \* the hub is open and the reactor runs
    cache_dir,          \* the cache directory exists
    last                \* what the last handler did (observation only)

vars == <<settings, enabled, emit_dbus_signals, max_notifications, expire,
          use_server_prefs, enabled_filters, service_filters, filters,
          _preferences, notifications, shown, closed, timers, _icon_cache,
          files, downloads, started, pending, cached, running, cache_dir, last>>

-----------------------------------------------------------------------------
(* Bounds of the model *)

\* max-notifications is drawn from 0..MaxMaxNotifications
MaxMaxNotifications == 3
\* notifications shown by display_notification (the "activated" one not counted)
MaxShown == 3
\* downloadPage calls
MaxDownloads == 3
\* expiration is drawn from 0..MaxExpire
MaxExpire == 1

-----------------------------------------------------------------------------
(* The collaborators' data *)

None == "None"

\* filters.filters: the known custom filter classes, by __name__
all_filters == <<"FilterA", "FilterB">>

\* fedmsg.text.processors, by __name__
processors == <<"bodhi", "koji">>

\* processor.__prefix__: the topic prefix a processor's messages carry
__prefix__(p) == <<"org", p>>

Range(s) == {s[i] : i \in DOMAIN s}

CustomNames == Range(all_filters)
Names == CustomNames \cup Range(processors)

\* the free-form configuration strings of filter-settings ("" when absent)
Cfgs == {"", "x"}

Topics == {<<"org", "bodhi", "update">>, <<"org", "koji", "build">>,
           <<"org", "fmn", "update">>}

\* the identity of the local user, self.openid
openid == "me.id.fedoraproject.org"
OpenIds == {openid, "you.id.fedoraproject.org"}

Icons == {"A", "B", "C"}

\* md5 of the bytes an icon reference serves: A and B serve the same bytes
Content == [i \in Icons |-> IF i = "C" THEN "md5_2" ELSE "md5_1"]

\* md5 of a file that does not hold the whole content yet
Partial == [i \in Icons |-> IF i = "A" THEN "md5_part_A"
                            ELSE IF i = "B" THEN "md5_part_B" ELSE "md5_part_C"]

\* the (icon, secondary icon) pairs fedmsg.text.msg2icon/msg2secondary_icon give
IconPairs == {<<None, None>>, <<"A", None>>, <<"B", None>>, <<"C", None>>,
              <<"A", "B">>, <<"A", "A">>}

\* the sets of custom filter classes whose match a message can satisfy
Hits == SUBSET CustomNames

\* Messages as local-filter mode reads them
LocalMsgs ==
    {[topic |-> t, names |-> n, cfg |-> c, openid |-> None, wanted |-> FALSE,
      icon |-> ic[1], secondary_icon |-> ic[2]] :
        t \in Topics, n \in Hits, c \in Cfgs, ic \in IconPairs}

\* Messages as remote-preference mode reads them
RemoteMsgs ==
    {[topic |-> t, names |-> {}, cfg |-> "", openid |-> o, wanted |-> w,
      icon |-> ic[1], secondary_icon |-> ic[2]] :
        t \in Topics, o \in OpenIds, w \in BOOLEAN, ic \in IconPairs}

Msgs == LocalMsgs \cup RemoteMsgs

\* m \in LocalMsgs, m \in RemoteMsgs: the fields the other mode reads are unset
IsLocalMsg(m) == m.openid = None /\ ~m.wanted
IsRemoteMsg(m) == m.openid # None /\ m.names = {} /\ m.cfg = ""

-----------------------------------------------------------------------------
(* settings_changed *)

\* filters.get_enabled_filters(settings)
get_enabled_filters(s) == s.enabled_filters

\* a slip: every processor's prefix is listed, enabled or not
ServiceFilters_AllProcessors(ef) ==
    [i \in DOMAIN processors |-> __prefix__(processors[i])]

\* the service_filters list comprehension
ServiceFilters(ef) ==
    LET Enabled(p) == p \in ef
        sel == SelectSeq(processors, Enabled)
    IN  [i \in DOMAIN sel |-> __prefix__(sel[i])]

FilterNames(fs) == {fs[i].name : i \in DOMAIN fs}

\* the loop over all_filters: `was` is the list of names loaded before the loop
RECURSIVE ReloadFrom(_, _, _, _, _)
ReloadFrom(i, fs, was, ef, filter_settings) ==
    IF i > Len(all_filters) THEN fs
    ELSE LET name == all_filters[i]
             Other(f) == f.name # name
             fs1 == IF name \in was /\ name \notin ef
                    THEN SelectSeq(fs, Other) ELSE fs
             fs2 == IF name \notin was /\ name \in ef
                    THEN Append(fs1, [name |-> name, cfg |-> filter_settings[name]])
                    ELSE fs1
         IN  ReloadFrom(i + 1, fs2, was, ef, filter_settings)

\* a slip: the names loaded before the loop are not collected
ReloadFilters_NothingLoaded(fs, ef, filter_settings) ==
    ReloadFrom(1, fs, {}, ef, filter_settings)

ReloadFilters(fs, ef, filter_settings) ==
    ReloadFrom(1, fs, FilterNames(fs), ef, filter_settings)

\* no notification: a number below every notification id
NoNote == 0 - 1

\* what a handler did: whether the message matched, the signals it emitted,
\* whether it fetched the preferences, whether it pushed a notification, the
\* notification it pushed or its timer closed, the one whose close() raised,
\* whether an exception left the handler
Idle(op) == [op |-> op, matched |-> FALSE, signals |-> 0, fetched |-> FALSE,
             pushed |-> FALSE, note |-> NoNote, raised |-> NoNote,
             error |-> FALSE]

\* a slip: a filter-settings change re-initialises the loaded filters
settings_handler_Reinit(s, key, value) ==
    /\ enabled_filters' = get_enabled_filters(s)
    /\ IF key = "enabled-filters"
       THEN /\ service_filters' = ServiceFilters(get_enabled_filters(s))
            /\ filters' = ReloadFilters(filters, get_enabled_filters(s),
                                        s.filter_settings)
            /\ UNCHANGED <<emit_dbus_signals, expire>>
       ELSE IF key = "filter-settings"
       THEN /\ filters' = [i \in DOMAIN filters |->
                             [name |-> filters[i].name,
                              cfg |-> s.filter_settings[filters[i].name]]]
            /\ UNCHANGED <<service_filters, emit_dbus_signals, expire>>
       ELSE IF key = "emit-dbus-signals"
       THEN /\ emit_dbus_signals' = value
            /\ UNCHANGED <<service_filters, filters, expire>>
       ELSE IF key = "expiration"
       THEN /\ expire' = value
            /\ UNCHANGED <<service_filters, filters, emit_dbus_signals>>
       ELSE UNCHANGED <<service_filters, filters, emit_dbus_signals, expire>>

\* a slip: the emit-dbus-signals branch is the final else, and get_boolean of
\* a key that holds no boolean gives False
settings_handler_NoElse(s, key, value) ==
    /\ enabled_filters' = get_enabled_filters(s)
    /\ IF key = "enabled-filters"
       THEN /\ service_filters' = ServiceFilters(get_enabled_filters(s))
            /\ filters' = ReloadFilters(filters, get_enabled_filters(s),
                                        s.filter_settings)
            /\ UNCHANGED <<emit_dbus_signals, expire>>
       ELSE IF key = "filter-settings"
       THEN UNCHANGED <<service_filters, filters, emit_dbus_signals, expire>>
       ELSE IF key = "expiration"
       THEN /\ expire' = value
            /\ UNCHANGED <<service_filters, filters, emit_dbus_signals>>
       ELSE /\ emit_dbus_signals' = (key = "emit-dbus-signals" /\ value = TRUE)
            /\ UNCHANGED <<service_filters, filters, expire>>

\* the handler proper, run on the store as it is after the change
settings_handler(s, key, value) ==
    /\ enabled_filters' = get_enabled_filters(s)
    /\ IF key = "enabled-filters"
       THEN /\ service_filters' = ServiceFilters(get_enabled_filters(s))
            /\ filters' = ReloadFilters(filters, get_enabled_filters(s),
                                        s.filter_settings)
            /\ UNCHANGED <<emit_dbus_signals, expire>>
       ELSE IF key = "filter-settings"
       THEN UNCHANGED <<service_filters, filters, emit_dbus_signals, expire>>
       ELSE IF key = "emit-dbus-signals"
       THEN /\ emit_dbus_signals' = value
            /\ UNCHANGED <<service_filters, filters, expire>>
       ELSE IF key = "expiration"
       THEN /\ expire' = value
            /\ UNCHANGED <<service_filters, filters, emit_dbus_signals>>
       ELSE UNCHANGED <<service_filters, filters, emit_dbus_signals, expire>>

\* a key of the store changes to `value` and the connected handler runs
settings_changed(key, value) ==
    /\ running
    /\ settings' = IF key = "enabled-filters"
                   THEN [settings EXCEPT !.enabled_filters = value]
                   ELSE IF key = "filter-settings"
                   THEN [settings EXCEPT !.filter_settings = value]
                   ELSE settings
    /\ settings_handler(settings', key, value)
    /\ last' = Idle(key)
    /\ UNCHANGED <<enabled, max_notifications, use_server_prefs, _preferences,
                   notifications, shown, closed, timers, _icon_cache, files,
                   downloads, started, pending, cached, running, cache_dir>>

SettingsChanged ==
    \/ \E v \in SUBSET Names : settings_changed("enabled-filters", v)
    \/ \E v \in [CustomNames -> Cfgs] : settings_changed("filter-settings", v)
    \/ \E v \in BOOLEAN : settings_changed("emit-dbus-signals", v)
    \/ \E v \in 0..MaxExpire : settings_changed("expiration", v)
    \/ settings_changed("topic", None)

-----------------------------------------------------------------------------
(* The preferences property *)

\* self._preferences is None, [] or [preference]
PrefsNone == "None"
PrefsEmpty == "[]"
PrefsLoaded == "[preference]"

\* what requests.get(url) can bring: a success response whose body is a
\* preference, a non-success response, a success response whose body is not
\* one (response.json() or repopulate_functions raises on it)
Responses == {"preference", "failure", "malformed"}

\* the property: what it leaves stored, what it returns, whether it fetched,
\* whether it raises instead of returning
preferences(p, response) ==
    IF p = PrefsNone \/ p = PrefsEmpty
    THEN IF response = "preference"
         THEN [stored |-> PrefsLoaded, value |-> PrefsLoaded, fetched |-> TRUE,
               raises |-> FALSE]
         ELSE [stored |-> p, value |-> PrefsEmpty, fetched |-> TRUE,
               raises |-> response = "malformed"]
    ELSE [stored |-> p, value |-> p, fetched |-> FALSE, raises |-> FALSE]

\* fmn.lib.recipients(preferences, msg, valid_paths, cfg)
recipients(prefs, m) ==
    IF prefs = PrefsLoaded /\ m.wanted THEN {"desktop"} ELSE {}

-----------------------------------------------------------------------------
(* Routing *)

\* '.fmn.' in topic
HasFmn(topic) == \E i \in 2..(Len(topic) - 1) : topic[i] = "fmn"

\* a service filter (a compiled prefix) .match(topic)
PrefixMatch(prefix, topic) ==
    /\ Len(prefix) <= Len(topic)
    /\ \A i \in DOMAIN prefix : prefix[i] = topic[i]

\* a custom filter instance .match(msg, processor)
match(f, m) == f.name \in m.names /\ f.cfg = m.cfg

\* the for loop over self.filters from position i on: how many filters it
\* has tested when it ends, and whether it ended by break
RECURSIVE FiltersLoop(_, _, _)
FiltersLoop(fs, m, i) ==
    IF i > Len(fs) THEN [tested |-> Len(fs), broke |-> FALSE]
    ELSE IF match(fs[i], m) THEN [tested |-> i, broke |-> TRUE]
    ELSE FiltersLoop(fs, m, i + 1)

\* the for loop over self.service_filters from position i on
RECURSIVE ServiceLoop(_, _, _)
ServiceLoop(sfs, topic, i) ==
    IF i > Len(sfs) THEN [tested |-> Len(sfs), broke |-> FALSE]
    ELSE IF PrefixMatch(sfs[i], topic) THEN [tested |-> i, broke |-> TRUE]
    ELSE ServiceLoop(sfs, topic, i + 1)

\* a slip: the loop over the service filters is not in the else of the first
Route_BothLoops(fs, sfs, m) ==
    LET c == FiltersLoop(fs, m, 1)
        s == ServiceLoop(sfs, m.topic, 1)
    IN  [matched |-> c.broke \/ s.broke,
         custom_tests |-> c.tested, prefix_tests |-> s.tested]

\* the for/else over self.filters, then over self.service_filters: whether
\* consume goes on, and how many filters of each list it has tested
Route(fs, sfs, m) ==
    LET c == FiltersLoop(fs, m, 1)
        s == IF c.broke THEN [tested |-> 0, broke |-> FALSE]
             ELSE ServiceLoop(sfs, m.topic, 1)
    IN  [matched |-> c.broke \/ s.broke,
         custom_tests |-> c.tested, prefix_tests |-> s.tested]

LocalMatch(fs, sfs, m) == Route(fs, sfs, m).matched

-----------------------------------------------------------------------------
(* The icon cache *)

\* os.path.join(self.cache_dir, str(uuid.uuid5(uuid.NAMESPACE_URL, str(icon))))
Filename == [i \in Icons |-> IF i = "A" THEN "cache_dir/uuid5_A"
                             ELSE IF i = "B" THEN "cache_dir/uuid5_B"
                             ELSE "cache_dir/uuid5_C"]

Put(f, k, v) == (k :> v) @@ f
Drop(f, k) == [x \in DOMAIN f \ {k} |-> f[x]]

\* get_icon on st = [cache, dls, n]: the new cache, downloads and count, and
\* `wait`, the id of the download its deferred waits for (0: already fired)
get_icon(st, icon) ==
    IF icon \in DOMAIN st.cache
    THEN [cache |-> st.cache, dls |-> st.dls, n |-> st.n, wait |-> 0]
    ELSE IF Filename[icon] \notin DOMAIN files
    THEN [cache |-> st.cache,
          dls |-> Put(st.dls, st.n + 1, [icon |-> icon, stage |-> "requested"]),
          n |-> st.n + 1, wait |-> st.n + 1]
    ELSE [cache |-> Put(st.cache, icon, Filename[icon]), dls |-> st.dls,
          n |-> st.n, wait |-> 0]

\* fetch_icons: get_icon for the icon, then for the secondary icon
fetch_icons(m) ==
    LET st0 == [cache |-> _icon_cache, dls |-> downloads, n |-> started, wait |-> 0]
        r1 == IF m.icon # None THEN get_icon(st0, m.icon) ELSE st0
        r2 == IF m.secondary_icon # None THEN get_icon(r1, m.secondary_icon)
              ELSE [r1 EXCEPT !.wait = 0]
    IN  [cache |-> r2.cache, dls |-> r2.dls, n |-> r2.n,
         waits |-> {r1.wait, r2.wait} \ {0}]

\* cache_icon on the files as the finished download left them
cache_icon(fs, icon) ==
    LET filename == Filename[icon] IN
    IF filename \notin DOMAIN fs
    THEN [cache |-> _icon_cache, files |-> fs]
    ELSE LET checksum == fs[filename] IN
         IF checksum \in DOMAIN _icon_cache
         THEN [cache |-> Put(_icon_cache, icon, _icon_cache[checksum]),
               files |-> Drop(fs, filename)]
         ELSE [cache |-> Put(Put(_icon_cache, checksum, filename), icon, filename),
               files |-> fs]

-----------------------------------------------------------------------------
(* The notification list *)

\* a slip: insert at the front, pop(0)
display_notification_PopsFront(show_ok, close_ok) ==
    LET note == shown + 1
        inserted == <<note>> \o notifications
        evict == Len(inserted) >= max_notifications
        victim == inserted[1]
    IN  IF ~show_ok
        THEN [notifications |-> notifications, closed |-> closed,
              timers |-> timers, shown |-> shown, pushed |-> FALSE,
              note |-> NoNote, raised |-> NoNote]
        ELSE [notifications |-> IF evict THEN Tail(inserted) ELSE inserted,
              closed |-> IF evict /\ close_ok THEN closed \cup {victim} ELSE closed,
              timers |-> IF expire # 0 /\ (evict => close_ok)
                         THEN timers \cup {note} ELSE timers,
              shown |-> note, pushed |-> TRUE, note |-> note,
              raised |-> IF evict /\ ~close_ok THEN victim ELSE NoNote]

\* display_notification: the list, the close() calls and the timers after it.
\* show_ok, close_ok: whether note.show() and the evicted note's close() return
display_notification(show_ok, close_ok) ==
    LET note == shown + 1
        inserted == <<note>> \o notifications
        evict == Len(inserted) >= max_notifications
        victim == inserted[Len(inserted)]
    IN  IF ~show_ok
        THEN [notifications |-> notifications, closed |-> closed,
              timers |-> timers, shown |-> shown, pushed |-> FALSE,
              note |-> NoNote, raised |-> NoNote]
        ELSE [notifications |-> IF evict
                                THEN SubSeq(inserted, 1, Len(inserted) - 1)
                                ELSE inserted,
              closed |-> IF evict /\ close_ok THEN closed \cup {victim} ELSE closed,
              timers |-> IF expire # 0 /\ (evict => close_ok)
                         THEN timers \cup {note} ELSE timers,
              shown |-> note, pushed |-> TRUE, note |-> note,
              raised |-> IF evict /\ ~close_ok THEN victim ELSE NoNote]

\* what display_notification did, added to the observation obs
Observe(obs, show_ok, close_ok) ==
    LET d == display_notification(show_ok, close_ok) IN
    [obs EXCEPT !.pushed = d.pushed, !.note = d.note, !.raised = d.raised]

\* the DeferredList of a message fired: display_notification runs
Display(show_ok, close_ok) ==
    LET d == display_notification(show_ok, close_ok) IN
    /\ notifications' = d.notifications
    /\ closed' = d.closed
    /\ timers' = d.timers
    /\ shown' = d.shown

NoDisplay == UNCHANGED <<notifications, closed, timers, shown>>

\* a slip: the list fires when the first of its deferreds fires
Join_FirstFires(d, op, show_ok, close_ok) ==
    LET p == CHOOSE w \in pending : d \in w IN
    /\ pending' = pending \ {p}
    /\ Display(show_ok, close_ok)
    /\ last' = Observe(Idle(op), show_ok, close_ok)

\* a download's deferred fired: its DeferredList fires when it was the last
Join(d, op, show_ok, close_ok) ==
    LET p == CHOOSE w \in pending : d \in w IN
    /\ pending' = (pending \ {p}) \cup (IF p = {d} THEN {} ELSE {p \ {d}})
    /\ IF p = {d}
       THEN /\ Display(show_ok, close_ok)
            /\ last' = Observe(Idle(op), show_ok, close_ok)
       ELSE /\ NoDisplay
            /\ last' = Idle(op)

-----------------------------------------------------------------------------
(* consume *)

\* a slip: the embedded openid is not compared
Invalidates_AnyOpenid(m) == HasFmn(m.topic)

\* the message is the local user's own preference change
Invalidates(m) == HasFmn(m.topic) /\ m.openid = openid

\* a slip: the signal is emitted before the filters are consulted
MessageReceived_Unfiltered(matched) == IF emit_dbus_signals THEN 1 ELSE 0

\* a slip: the signal is emitted whatever emit-dbus-signals says
MessageReceived_Unconditional(matched) == IF matched THEN 1 ELSE 0

\* the MessageReceived signals a message emits
MessageReceived(matched) == IF matched /\ emit_dbus_signals THEN 1 ELSE 0

consume(m, response, show_ok, close_ok) ==
    /\ running
    /\ IF use_server_prefs THEN IsRemoteMsg(m) ELSE IsLocalMsg(m)
    /\ LET invalidate == use_server_prefs /\ Invalidates(m)
           pr == preferences(IF invalidate THEN PrefsNone ELSE _preferences,
                             response)
           matched == IF use_server_prefs
                      THEN ~pr.raises /\ recipients(pr.value, m) # {}
                      ELSE LocalMatch(filters, service_filters, m)
           fi == fetch_icons(m)
           obs == [Idle("consume") EXCEPT
                     !.matched = matched,
                     !.signals = MessageReceived(matched),
                     !.fetched = use_server_prefs /\ pr.fetched,
                     !.error = use_server_prefs /\ pr.raises]
       IN  /\ _preferences' = IF use_server_prefs THEN pr.stored ELSE _preferences
           /\ IF ~matched
              THEN /\ NoDisplay
                   /\ UNCHANGED <<_icon_cache, downloads, started, pending>>
                   /\ last' = obs
              ELSE /\ shown + Cardinality(pending) < MaxShown
                   /\ fi.n <= MaxDownloads
                   /\ _icon_cache' = fi.cache
                   /\ downloads' = fi.dls
                   /\ started' = fi.n
                   /\ IF fi.waits = {}
                      THEN /\ Display(show_ok, close_ok)
                           /\ UNCHANGED pending
                           /\ last' = Observe(obs, show_ok, close_ok)
                      ELSE /\ NoDisplay
                           /\ pending' = pending \cup {fi.waits}
                           /\ last' = obs
    /\ UNCHANGED <<settings, enabled, emit_dbus_signals, max_notifications,
                   expire, use_server_prefs, enabled_filters, service_filters,
                   filters, files, cached, running, cache_dir>>

\* the next display_notification would evict: only then is close() called
Evicts == Len(notifications) + 1 >= max_notifications
CloseOutcomes == IF Evicts THEN BOOLEAN ELSE {TRUE}
FetchOutcomes == IF use_server_prefs THEN Responses ELSE {"preference"}

Consume(M) ==
    \E m \in M, response \in FetchOutcomes, show_ok \in BOOLEAN,
       close_ok \in CloseOutcomes :
        consume(m, response, show_ok, close_ok)

-----------------------------------------------------------------------------
(* downloadPage *)

\* the response arrived with status 200: HTTPDownloader opens the file
DownloadStart(d) ==
    /\ running
    /\ d \in DOMAIN downloads
    /\ downloads[d].stage = "requested"
    /\ downloads' = [downloads EXCEPT ![d].stage = "writing"]
    /\ files' = Put(files, Filename[downloads[d].icon], Partial[downloads[d].icon])
    /\ last' = Idle("pageStart")
    /\ UNCHANGED <<settings, enabled, emit_dbus_signals, max_notifications,
                   expire, use_server_prefs, enabled_filters, service_filters,
                   filters, _preferences, notifications, shown, closed,
                   timers, _icon_cache, started, pending, cached, running,
                   cache_dir>>

\* the page ended: the callbacks of the download's deferred run, cache_icon
\* first, then the DeferredList's.  `whole`: the file holds the whole content
\* (it may not when another download was writing the same file)
DownloadFinish(d, whole, show_ok, close_ok) ==
    /\ running
    /\ d \in DOMAIN downloads
    /\ downloads[d].stage = "writing"
    /\ LET icon == downloads[d].icon
           filename == Filename[icon]
           shared == \E e \in DOMAIN downloads \ {d} :
                        downloads[e].icon = icon /\ downloads[e].stage = "writing"
           written == IF filename \in DOMAIN files
                      THEN [files EXCEPT ![filename] =
                              IF whole THEN Content[icon] ELSE Partial[icon]]
                      ELSE files
           c == cache_icon(written, icon)
       IN  /\ whole \/ shared
           /\ _icon_cache' = c.cache
           /\ files' = c.files
           /\ cached' = IF filename \in DOMAIN written /\ whole
                        THEN cached \cup {icon} ELSE cached
    /\ downloads' = Drop(downloads, d)
    /\ Join(d, "cache_icon", show_ok, close_ok)
    /\ UNCHANGED <<settings, enabled, emit_dbus_signals, max_notifications,
                   expire, use_server_prefs, enabled_filters, service_filters,
                   filters, _preferences, started, running, cache_dir>>

\* the download failed: errback=log.error, then the DeferredList's callback
DownloadFail(d, show_ok, close_ok) ==
    /\ running
    /\ d \in DOMAIN downloads
    /\ downloads' = Drop(downloads, d)
    /\ Join(d, "errback", show_ok, close_ok)
    /\ UNCHANGED <<settings, enabled, emit_dbus_signals, max_notifications,
                   expire, use_server_prefs, enabled_filters, service_filters,
                   filters, _preferences, _icon_cache, files, started, cached,
                   running, cache_dir>>

-----------------------------------------------------------------------------
(* Timers and shutdown *)

\* a reactor.callLater(.., note.close) call comes due.  The IDelayedCall is
\* not kept, so nothing cancels it; reactor.stop() in __del__ only asks the
\* running reactor to stop, and the calls already due by then are run before
\* it does, so the call can still come after __del__
TimerFire(n, close_ok) ==
    /\ n \in timers
    /\ timers' = timers \ {n}
    /\ closed' = IF close_ok THEN closed \cup {n} ELSE closed
    /\ last' = [Idle("callLater") EXCEPT
                  !.note = n, !.raised = IF close_ok THEN NoNote ELSE n]
    /\ UNCHANGED <<settings, enabled, emit_dbus_signals, max_notifications,
                   expire, use_server_prefs, enabled_filters, service_filters,
                   filters, _preferences, notifications, shown, _icon_cache,
                   files, downloads, started, pending, cached, running,
                   cache_dir>>

\* Enable: a no-op
Enable ==
    /\ running
    /\ last' = Idle("Enable")
    /\ UNCHANGED <<settings, enabled, emit_dbus_signals, max_notifications,
                   expire, use_server_prefs, enabled_filters, service_filters,
                   filters, _preferences, notifications, shown, closed,
                   timers, _icon_cache, files, downloads, started, pending,
                   cached, running, cache_dir>>

\* the notes the loop of __del__ closes: all of them when fail_at = 0, else
\* those before the one whose close() raises GLib.GError
ClosedByDel(fail_at) ==
    {notifications[i] : i \in {j \in DOMAIN notifications :
                                   fail_at = 0 \/ j < fail_at}}

\* Disable, or __del__ at exit
__del__(fail_at) ==
    /\ enabled
    /\ enabled' = FALSE
    /\ closed' = closed \cup ClosedByDel(fail_at)
    /\ running' = FALSE
    /\ files' = <<>>
    /\ cache_dir' = FALSE
    /\ last' = [Idle("__del__") EXCEPT
                  !.raised = IF fail_at = 0 THEN NoNote ELSE notifications[fail_at]]
    /\ UNCHANGED <<settings, emit_dbus_signals, max_notifications, expire,
                   use_server_prefs, enabled_filters, service_filters, filters,
                   _preferences, notifications, shown, timers, _icon_cache,
                   downloads, started, pending, cached>>

Disable == \E fail_at \in 0..Len(notifications) : __del__(fail_at)

-----------------------------------------------------------------------------

Init ==
    /\ settings \in [enabled_filters : SUBSET Names,
                     filter_settings : [CustomNames -> Cfgs]]
    /\ enabled = TRUE
    /\ emit_dbus_signals \in BOOLEAN
    /\ max_notifications \in 0..MaxMaxNotifications
    /\ expire \in 0..MaxExpire
    /\ use_server_prefs \in BOOLEAN
    /\ enabled_filters = get_enabled_filters(settings)
    /\ service_filters = ServiceFilters(get_enabled_filters(settings))
    /\ filters = ReloadFilters(<<>>, get_enabled_filters(settings),
                               settings.filter_settings)
    /\ _preferences = PrefsEmpty
    /\ notifications = <<0>>
    /\ shown = 0
    /\ closed = {}
    /\ timers = {0}
    /\ _icon_cache = <<>>
    /\ files = <<>>
    /\ downloads = <<>>
    /\ started = 0
    /\ pending = {}
    /\ cached = {}
    /\ running = TRUE
    /\ cache_dir = TRUE
    /\ last = Idle("__init__")

Next ==
    \/ SettingsChanged
    \/ Consume(Msgs)
    \/ \E d \in 1..MaxDownloads : DownloadStart(d)
    \/ \E d \in 1..MaxDownloads, whole, show_ok \in BOOLEAN,
          close_ok \in CloseOutcomes :
          DownloadFinish(d, whole, show_ok, close_ok)
    \/ \E d \in 1..MaxDownloads, show_ok \in BOOLEAN, close_ok \in CloseOutcomes :
          DownloadFail(d, show_ok, close_ok)
    \/ \E n \in 0..MaxShown, close_ok \in BOOLEAN : TimerFire(n, close_ok)
    \/ Enable
    \/ Disable

Spec == Init /\ [][Next]_vars

-----------------------------------------------------------------------------
(* The notification list alone: messages without icons, under one filter   *)
(* configuration, with every max-notifications and expiration.             *)

PlainMsgs == {m \in Msgs : m.icon = None /\ m.secondary_icon = None}

\* those of them that local-filter mode reads
LocalPlainMsgs == {m \in PlainMsgs : IsLocalMsg(m)}

SomeSettings == [enabled_filters |-> {"FilterA", "bodhi"},
                 filter_settings |-> [n \in CustomNames |-> ""]]

InitQueue ==
    /\ Init
    /\ settings = SomeSettings
    /\ ~use_server_prefs
    /\ ~emit_dbus_signals

NextQueue ==
    \/ Consume(PlainMsgs)
    \/ \E v \in 0..MaxExpire : settings_changed("expiration", v)
    \/ \E n \in 0..MaxShown, close_ok \in BOOLEAN : TimerFire(n, close_ok)
    \/ Disable

SpecQueue == InitQueue /\ [][NextQueue]_vars

(* The filter registry and the router: settings changes and messages       *)
(* without icons, in local-filter mode.                                    *)

InitFilters ==
    /\ Init
    /\ ~use_server_prefs
    /\ max_notifications = 1
    /\ expire = 0

NextFilters ==
    \/ \E v \in SUBSET Names : settings_changed("enabled-filters", v)
    \/ \E v \in [CustomNames -> Cfgs] : settings_changed("filter-settings", v)
    \/ \E v \in BOOLEAN : settings_changed("emit-dbus-signals", v)
    \/ settings_changed("topic", None)
    \/ Consume(PlainMsgs)

SpecFilters == InitFilters /\ [][NextFilters]_vars

(* The icon cache: messages with icons and their downloads.                *)

IconMsgs == {m \in LocalMsgs : m.names = {} /\ m.cfg = "" /\ ~HasFmn(m.topic)}

InitIcons ==
    /\ Init
    /\ ~use_server_prefs
    /\ settings = SomeSettings
    /\ ~emit_dbus_signals
    /\ max_notifications = 2
    /\ expire = 0

NextIcons ==
    \/ Consume(IconMsgs)
    \/ \E d \in 1..MaxDownloads : DownloadStart(d)
    \/ \E d \in 1..MaxDownloads, whole, show_ok \in BOOLEAN,
          close_ok \in CloseOutcomes :
          DownloadFinish(d, whole, show_ok, close_ok)
    \/ \E d \in 1..MaxDownloads, show_ok \in BOOLEAN, close_ok \in CloseOutcomes :
          DownloadFail(d, show_ok, close_ok)
    \/ Disable

SpecIcons == InitIcons /\ [][NextIcons]_vars

(* The preference cache: remote-preference mode, messages without icons.   *)

InitPrefs ==
    /\ Init
    /\ settings = SomeSettings
    /\ use_server_prefs
    /\ expire = 0

NextPrefs ==
    \/ Consume(PlainMsgs)
    \/ \E v \in BOOLEAN : settings_changed("emit-dbus-signals", v)

SpecPrefs == InitPrefs /\ [][NextPrefs]_vars

(* The router in both modes: every enabled-filters value and messages with *)
(* at most one icon, whose downloads start but do not end.                 *)

RouterMsgs == {m \in Msgs : m.icon \in {None, "A"} /\ m.secondary_icon = None}

InitRouter ==
    /\ Init
    /\ settings.filter_settings = [n \in CustomNames |-> ""]
    /\ max_notifications = 2
    /\ expire = 0

NextRouter ==
    \/ Consume(RouterMsgs)
    \/ \E d \in 1..MaxDownloads : DownloadStart(d)

SpecRouter == InitRouter /\ [][NextRouter]_vars

(* Signals: both modes, messages with at most one icon, whose download     *)
(* ends one way or the other.                                              *)

NotifyPairs == {<<None, None>>, <<"A", None>>, <<"A", "B">>}

NotifyMsgs == {m \in Msgs : /\ <<m.icon, m.secondary_icon>> \in NotifyPairs
                            /\ m.names = {} /\ m.cfg = ""
                            /\ ~HasFmn(m.topic)}

\* the messages of NotifyMsgs that need at most one icon
SignalMsgs == {m \in NotifyMsgs : m.secondary_icon = None}

InitNotify ==
    /\ Init
    /\ settings = SomeSettings
    /\ max_notifications = 2
    /\ expire = 0

NextNotify ==
    \/ Consume(SignalMsgs)
    \/ \E v \in BOOLEAN : settings_changed("emit-dbus-signals", v)
    \/ \E d \in 1..MaxDownloads : DownloadStart(d)
    \/ \E d \in 1..MaxDownloads, whole, show_ok \in BOOLEAN,
          close_ok \in CloseOutcomes :
          DownloadFinish(d, whole, show_ok, close_ok)
    \/ \E d \in 1..MaxDownloads, show_ok \in BOOLEAN, close_ok \in CloseOutcomes :
          DownloadFail(d, show_ok, close_ok)

SpecNotify == InitNotify /\ [][NextNotify]_vars

(* The join over the icons, in local-filter mode: messages with no, one or  *)
(* two icons, where every download ends: the response or the connection's  *)
(* failure arrives in the end.                                             *)

JoinMsgs == {m \in NotifyMsgs : IsLocalMsg(m)}

InitJoin ==
    /\ InitNotify
    /\ ~use_server_prefs
    /\ ~emit_dbus_signals

DownloadEnds(d) ==
    \/ \E whole, show_ok \in BOOLEAN, close_ok \in CloseOutcomes :
          DownloadFinish(d, whole, show_ok, close_ok)
    \/ \E show_ok \in BOOLEAN, close_ok \in CloseOutcomes :
          DownloadFail(d, show_ok, close_ok)

NextJoin ==
    \/ Consume(JoinMsgs)
    \/ \E d \in 1..MaxDownloads : DownloadStart(d)
    \/ \E d \in 1..MaxDownloads : DownloadEnds(d)

LiveJoin ==
    /\ InitJoin
    /\ [][NextJoin]_vars
    /\ \A d \in 1..MaxDownloads : WF_vars(DownloadEnds(d))

-----------------------------------------------------------------------------
(* The claims *)

\* C1: right after display_notification has pushed a notification, the list
\* holds at most max-notifications notifications, for every configured
\* max-notifications from 0 on and counting the "activated" notification.
C1_QueueWithinMax ==
    last.pushed => Len(notifications) <= max_notifications

\* C2: with max-notifications = 2 and no expiration, once three matching
\* messages have each been pushed the list holds exactly 2 notifications and
\* the first of the three has been closed.
C2_ThreePushesKeepTwo ==
    (/\ max_notifications = 2
     /\ expire = 0
     /\ timers \subseteq {0}
     /\ shown = 3
     /\ last.pushed
     /\ last.note = 3
     /\ (1..3) \ Range(notifications) \subseteq closed)
    => (Len(notifications) = 2 /\ 1 \in closed)

\* C3: a consumed message that is not matched creates no notification,
\* starts no icon download and emits no signal, whatever emit-dbus-signals
\* is; and a message is never matched when, in local-filter mode, no custom
\* and no service filter is active or, in remote-preference mode, no
\* preferences were obtained.
C3_UnmatchedHasNoEffect ==
    [][/\ (last'.op = "consume" /\ ~last'.matched)
          => /\ UNCHANGED <<notifications, shown, closed, timers, downloads,
                            started, pending, _icon_cache, files>>
             /\ last'.signals = 0
             /\ ~last'.pushed
       /\ (last'.op = "consume" /\ last'.matched)
          => IF use_server_prefs
             THEN _preferences' = PrefsLoaded
             ELSE filters # <<>> \/ service_filters # <<>>]_vars

C3_Witness ==
    /\ last.op = "consume"
    /\ ~last.matched
    /\ emit_dbus_signals
    /\ ~use_server_prefs
    /\ filters # <<>>
    /\ service_filters # <<>>
    /\ started > 0

\* C4: for two icon references serving identical bytes, once cache_icon has
\* run for both (and no download of either is in flight) the cache maps both
\* to the same file and exactly one file with that content exists.
C4_IdenticalBytesOneFile ==
    running =>
    \A a, b \in cached :
        (/\ a # b
         /\ Content[a] = Content[b]
         /\ \A d \in DOMAIN downloads : downloads[d].icon \notin {a, b})
        => /\ _icon_cache[a] = _icon_cache[b]
           /\ Cardinality({f \in DOMAIN files : files[f] = Content[a]}) = 1

\* s is a prefix of t
IsPrefixOf(s, t) == Len(s) <= Len(t) /\ \A i \in DOMAIN s : s[i] = t[i]

\* the filters of fs whose name is in ef, in order
Kept(fs, ef) == LET In(f) == f.name \in ef IN SelectSeq(fs, In)

\* C5: once an enabled-filters change has been processed, the active list
\* holds exactly one instance of each known filter name of the enabled set
\* and none of any other name; the instances that stay enabled are kept, in
\* order, and the newly enabled ones are appended after them.
C5_FiltersFollowEnabledSet ==
    [][last'.op = "enabled-filters"
       => /\ FilterNames(filters') = CustomNames \cap settings'.enabled_filters
          /\ Len(filters') = Cardinality(FilterNames(filters'))
          /\ IsPrefixOf(Kept(filters, settings'.enabled_filters), filters')]_vars

C5_Witness ==
    /\ last.op = "enabled-filters"
    /\ Len(filters) = 2
    /\ filters[1].name = "FilterB"
    /\ filters[2].name = "FilterA"

\* C6: a filter-settings change leaves the active custom filters (instances,
\* order and the configuration each was built with) and the service filters
\* unchanged, so every message is routed as before.
C6_FilterSettingsChangesNothing ==
    [][last'.op = "filter-settings"
       => /\ filters' = filters
          /\ service_filters' = service_filters
          /\ \A m \in LocalPlainMsgs :
                LocalMatch(filters', service_filters', m)
                    = LocalMatch(filters, service_filters, m)]_vars

C6_Witness ==
    /\ last.op = "filter-settings"
    /\ \E i \in DOMAIN filters :
          filters[i].cfg # settings.filter_settings[filters[i].name]

\* C7: the timer scheduled for a pushed notification, on firing, closes the
\* notification and removes it from the list.
C7_TimerClosesAndRemoves ==
    (last.op = "callLater" /\ last.note >= 1 /\ last.raised = NoNote)
    => (last.note \in closed /\ last.note \notin Range(notifications))

\* C8: in remote-preference mode a consumed message that is the local user's
\* own preference change ('.fmn.' in the topic, own openid) makes consume
\* fetch the preferences afresh; any other message, a '.fmn.' one with
\* another openid included, causes no fetch once a fetch has succeeded, and
\* leaves the preferences cached.
C8_FetchOnlyAfterInvalidation ==
    [][\A m \in PlainMsgs, response \in Responses, show_ok, close_ok \in BOOLEAN :
          consume(m, response, show_ok, close_ok)
          => IF HasFmn(m.topic) /\ m.openid = openid
             THEN last'.fetched
             ELSE _preferences = PrefsLoaded
                  => (~last'.fetched /\ _preferences' = PrefsLoaded)]_vars

C8_Witness ==
    /\ last.op = "consume"
    /\ last.fetched
    /\ _preferences = PrefsNone

\* C9: shutdown closes every notification in the list and leaves the list
\* empty.
C9_ShutdownClosesAllAndClears ==
    [][(enabled /\ ~enabled')
       => (Range(notifications) \subseteq closed' /\ notifications' = <<>>)]_vars

\* C10: when closing one notification raises during shutdown, every other
\* notification of the list is still closed, and consumption is stopped and
\* the cache directory removed.
C10_CloseErrorIsolated ==
    (last.op = "__del__" /\ last.raised # NoNote)
    => (/\ Range(notifications) \ {last.raised} \subseteq closed
        /\ ~running
        /\ ~cache_dir)

\* C11: with emit-dbus-signals set every matched message emits exactly one
\* MessageReceived signal in consume, whether show() then fails or the icon
\* downloads fail later; the download callbacks emit none and take none
\* back; with the flag unset, and for an unmatched message, no signal is
\* emitted.
C11_OneSignalPerMatch ==
    [][/\ last'.op = "consume"
            => last'.signals = IF last'.matched /\ emit_dbus_signals THEN 1 ELSE 0
       /\ last'.op \in {"pageStart", "cache_icon", "errback"}
            => last'.signals = 0]_vars

\* a matched message has emitted its signal and show() then failed
C11_Witness ==
    /\ last.op = "consume"
    /\ last.matched
    /\ last.signals = 1
    /\ ~last.pushed
    /\ pending = {}

\* C12: in remote-preference mode a preference fetch that fails or brings a
\* malformed payload raises nothing: the preferences access returns an empty
\* set and consume ends with "no match".
C12_FailedFetchIsNoMatch ==
    (last.op = "consume" /\ last.fetched /\ _preferences # PrefsLoaded)
    => (~last.error /\ ~last.matched)

\* the least element of a non-empty set of positions
First(S) == CHOOSE i \in S : \A j \in S : i <= j

\* C13: in local-filter mode consume reports a match exactly when some
\* active custom filter matches the message or some service filter matches
\* its topic; the custom filters are tested in list order up to the first
\* that matches, and the service filters are tested, in list order up to the
\* first that matches, only when no custom filter matched.
C13_FirstMatchWins ==
    ~use_server_prefs =>
    \A m \in LocalPlainMsgs :
        LET r == Route(filters, service_filters, m)
            cm == {i \in DOMAIN filters : match(filters[i], m)}
            pm == {i \in DOMAIN service_filters :
                      PrefixMatch(service_filters[i], m.topic)}
        IN  /\ LocalMatch(filters, service_filters, m) = (cm # {} \/ pm # {})
            /\ r.custom_tests = IF cm = {} THEN Len(filters) ELSE First(cm)
            /\ r.prefix_tests = IF cm # {} THEN 0
                                ELSE IF pm = {} THEN Len(service_filters)
                                ELSE First(pm)

\* a message was matched while two custom filters and two service filters
\* were active, and some message passes both custom filters
C13_Witness ==
    /\ last.op = "consume"
    /\ last.matched
    /\ ~use_server_prefs
    /\ Len(filters) = 2
    /\ Len(service_filters) = 2
    /\ \E m \in LocalPlainMsgs : match(filters[1], m) /\ match(filters[2], m)

\* C14: once an enabled-filters change that follows a filter-settings change
\* has been processed, every active custom filter, those that were active
\* before and stay enabled included, holds the filter-settings value the
\* store has at that enabled-filters change.
C14_FiltersHoldCurrentSettings ==
    last.op = "enabled-filters"
    => \A i \in DOMAIN filters :
          filters[i].cfg = settings.filter_settings[filters[i].name]

\* the prefixes of the enabled processors, in the order of the processors
EnabledPrefixes(ef) ==
    LET Enabled(p) == p \in ef
        sel == SelectSeq(processors, Enabled)
    IN  [i \in DOMAIN sel |-> <<"org", sel[i]>>]

\* C15: once an enabled-filters change has been processed, the service
\* filters are exactly the prefixes of the processors named in the enabled
\* set, each once: none of a disabled processor, none of an enabled one
\* missing.
C15_ServiceFiltersFollowEnabledSet ==
    last.op = "enabled-filters"
    => /\ service_filters = EnabledPrefixes(settings.enabled_filters)
       /\ Range(service_filters)
            = {<<"org", p>> : p \in Range(processors) \cap settings.enabled_filters}
       /\ Len(service_filters) = Cardinality(Range(service_filters))

\* koji alone is enabled after a change
C15_Witness ==
    /\ last.op = "enabled-filters"
    /\ service_filters = <<(<<"org", "koji">>)>>
    /\ "bodhi" \notin settings.enabled_filters

\* C19: a settings_changed call with an unrecognised key raises nothing and
\* leaves the active custom filters, the service filters, the
\* emit-dbus-signals flag, the expiration and the notification list as they
\* were.
C19_UnknownKeyChangesNothing ==
    [][last'.op = "topic"
       => /\ UNCHANGED <<filters, service_filters, emit_dbus_signals, expire,
                         notifications>>
          /\ ~last'.error]_vars

\* the unknown key arrived while the flag was set and filters were active
C19_Witness ==
    /\ last.op = "topic"
    /\ emit_dbus_signals
    /\ filters # <<>>
    /\ service_filters # <<>>

\* some join still waits for download d
Awaited(d) == \E p \in pending : d \in p

\* the bounds of the model leave room for one more message with two icons
Room == shown + Cardinality(pending) < MaxShown /\ started + 2 <= MaxDownloads

\* C16: the notification of a matched message is displayed in consume only
\* when no icon had to be downloaded for it, and else in the callback of the
\* download that ends last of those the message waits for, whichever that
\* is and whether the downloads succeeded or failed; every join whose
\* downloads end does fire; and while joins are pending consume still takes
\* the next message and matches it.
C16_DisplayAfterBothIcons ==
    /\ [][/\ (last'.op = "consume" /\ last'.pushed) => started' = started
          /\ \A d \in DOMAIN downloads \ DOMAIN downloads' :
                last'.pushed => {d} \in pending
          /\ \A p \in pending' : p # {} /\ p \subseteq DOMAIN downloads']_vars
    /\ \A d \in 1..MaxDownloads : Awaited(d) ~> ~Awaited(d)
    /\ []((pending # {} /\ Room) => ENABLED (Consume(JoinMsgs) /\ last'.matched))

\* the message waited for two downloads, the first to be started ended last
\* and failed, and the notification was then displayed
C16_Witness ==
    /\ last.op = "errback"
    /\ last.pushed
    /\ last.note = 1
    /\ started = 2
    /\ cached = {"B"}
    /\ downloads = <<>>
    /\ pending = {}

\* C17: a push puts the new notification at the front of the list, which is
\* so ordered from the most recently displayed to the oldest; an eviction
\* removes exactly one notification, the one at the tail of the list as it
\* was before the push, and calls close() on it and on no other; the list
\* held an older notification before every push, so the one just pushed is
\* never the one evicted.
C17_FrontInsertTailEvict ==
    [][last'.pushed
       => LET note == last'.note
              inserted == <<note>> \o notifications
              oldest == notifications[Len(notifications)]
          IN  /\ notifications # <<>>
              /\ notifications'[1] = note
              /\ \A i, j \in DOMAIN notifications' :
                    i < j => notifications'[i] > notifications'[j]
              /\ \/ /\ notifications' = inserted
                    /\ closed' = closed
                    /\ last'.raised = NoNote
                 \/ /\ notifications' = SubSeq(inserted, 1, Len(inserted) - 1)
                    /\ \/ closed' = closed \cup {oldest} /\ last'.raised = NoNote
                       \/ closed' = closed /\ last'.raised = oldest]_vars

\* the third push evicted the first pushed notification from a list of three
C17_Witness ==
    /\ last.pushed
    /\ last.note = 3
    /\ notifications = <<3, 2>>
    /\ closed = {0, 1}

\* C18: once __del__ has run, no expiration timer fires and no step closes a
\* notification, changes the list or starts a download.
C18_NothingAfterShutdown ==
    [][~running => /\ last'.op # "callLater"
                   /\ closed' = closed
                   /\ notifications' = notifications
                   /\ started' = started]_vars

\* C20: while the service runs, every file the icon cache names as the
\* value of an entry exists in the cache directory.
C20_CachedFilesExist ==
    running => \A k \in DOMAIN _icon_cache : _icon_cache[k] \in DOMAIN files

====
